---- MODULE Spec2Model ----
(***************************************************************************)
(* Comment selection and duplicate filtering of the reels-maker pipelines  *)
(* (RedditThreadPipeline / RedditCommentsPipeline) together with the       *)
(* VectorStore they share.                                                 *)
(*                                                                         *)
(* Times are integers in milliseconds (70.0 s = 70000, 0.2 s = 200);       *)
(* similarity scores and alpha are integers in thousandths (0.80 = 800).   *)
(* Texts are sequences of one-character strings.                           *)
(***************************************************************************)
EXTENDS Integers, Sequences, FiniteSets, TLC

\* ------------------------------------------------------------------ bounds
\* Longest post (number of comments) the model enumerates.
MaxComments == 3
\* Longest document list given to add_documents directly.
MaxDocs == 2
\* Largest k a search is called with.
MaxK == 2
\* Most add_documents calls made directly on the store.
MaxAdds == 2
\* Most calls made directly on each model wrapper.
MaxCalls == 3
\* Longest thread a run() coroutine is given.
MaxRunComments == 2

\* ------------------------------------------------------- program constants
\* settings.MIN_VIDEO_DURATION = 70.0 seconds
MIN_VIDEO_DURATION == 70000
\* RedditThreadPipeline(silence_duration=0.2)
silence_duration == 200
\* filter_duplicate_comments(threshold=0.80)
threshold == 800
\* filter_duplicate_comments(alpha=0.5)
alpha == 500
\* scale of the scores: 1.0
One == 1000

\* Python's None, where the model holds an exception name
None == "None"

\* ------------------------------------------------------------ input domains
\* The comments a thread can hold (body, score); the id is given by the
\* position in the thread.  Bodies: a short one, one whose length is 2 only
\* after strip(), and a long one.
CommentKinds ==
    { [body |-> <<"a">>, score |-> 5],
      [body |-> <<" ", "a", "b", " ">>, score |-> 9],
      [body |-> <<"a", "b", "c">>, score |-> 5],
      [body |-> <<"a">>, score |-> 9] }

\* Values of the pipeline's max_comment_length the model draws from.
MaxCommentLengths == {2, 3}

\* Durations (ms) the media probe can report for a synthesized clip.
Durations == {10000, 34900, 69900, 70000}

\* Cosine similarities and BM25 scores (thousandths) the embedding model and
\* the BM25 library can assign to a (query, document) pair.
VecScores == {200, 900}
LexScores == {0, 1000}

Lists(n) == UNION { [1..m -> CommentKinds] : m \in 0..n }

\* post.comments: every comment carries its own comment_id.
WithIds(l) == [i \in 1..Len(l) |-> [id |-> i, body |-> l[i].body, score |-> l[i].score]]

Posts == { WithIds(l) : l \in Lists(MaxComments) }

\* Texts indexed and queried when the store is used directly.
Texts == { <<"a">>, <<"a", " ", "b">> }

DocLists == UNION { [1..m -> Texts] : m \in 0..MaxDocs }

\* Values of k the searches are called with.
Ks == 1..MaxK

\* ------------------------------------------------------------ text helpers
Min2(a, b) == IF a <= b THEN a ELSE b

Take(s, k) == SubSeq(s, 1, Min2(k, Len(s)))

Range(s) == { s[i] : i \in 1..Len(s) }

IsSpace(ch) == ch = " "

RECURSIVE LStrip(_)
LStrip(s) == IF s = <<>> THEN s
             ELSE IF IsSpace(Head(s)) THEN LStrip(Tail(s)) ELSE s

RECURSIVE RStrip(_)
RStrip(s) == IF s = <<>> THEN s
             ELSE IF IsSpace(s[Len(s)]) THEN RStrip(SubSeq(s, 1, Len(s) - 1)) ELSE s

\* str.strip()
Strip(s) == RStrip(LStrip(s))

\* str.split(): the maximal runs of non-space characters
RECURSIVE SplitFrom(_, _, _)
SplitFrom(s, cur, acc) ==
    IF s = <<>> THEN (IF cur = <<>> THEN acc ELSE Append(acc, cur))
    ELSE IF IsSpace(Head(s))
         THEN SplitFrom(Tail(s), <<>>, IF cur = <<>> THEN acc ELSE Append(acc, cur))
         ELSE SplitFrom(Tail(s), Append(cur, Head(s)), acc)

Split(s) == SplitFrom(s, <<>>, <<>>)

\* RedditComment.length
length(c) == Len(Strip(c.body))


\* ---------------------------------------------------------------- results
\* The outcome of a call: a returned value or a raised exception.
Ret(v) == [raised |-> FALSE, error |-> None, value |-> v]
Raise(e) == [raised |-> TRUE, error |-> e, value |-> <<>>]

\* ------------------------------------------------------------- Embeddings
\* Embeddings.__init__ defines `device` and `model` as functions local to
\* __init__; the class itself has no attribute `model`.
Embeddings_has_model == FALSE

\* Embeddings.encode: `return self.model.encode(text)`.  The embedding of a
\* text is represented by the text; similarities come from the oracle.
encode(text) ==
    IF Embeddings_has_model THEN Ret(text) ELSE Raise("AttributeError")

\* ------------------------------------------------------------ VectorStore
\* VectorStore.__init__
\* self.index / self.bm25 are None until add_documents builds them.
NoneObj == [is_none |-> TRUE, rows |-> <<>>]
Built(rows) == [is_none |-> FALSE, rows |-> rows]

VectorStoreInit == [documents |-> <<>>, index |-> NoneObj, bm25 |-> NoneObj]

\* The scores the embedding model (cosine of normalized vectors) and the BM25
\* library give; without a model nothing is ever scored.
NoScores == [vec |-> <<>>, lex |-> <<>>, rr |-> <<>>]

Tokens(docs) == { Split(d) : d \in Range(docs) }

Oracles(docs) ==
    IF Embeddings_has_model
    THEN { o \in [vec : [Range(docs) \X Range(docs) -> VecScores \cup {One}],
                  lex : [Tokens(docs) \X Tokens(docs) -> LexScores],
                  rr  : [Range(docs) \X Range(docs) -> VecScores]] :
             \A a \in Range(docs), b \in Range(docs) :
                /\ o.vec[<<a, b>>] = o.vec[<<b, a>>]
                /\ (a = b) <=> (o.vec[<<a, b>>] = One) }
    ELSE { NoScores }

\* VectorStore.add_documents
add_documents(store, documents) ==
    IF encode(documents).raised
    THEN [raised |-> TRUE, error |-> encode(documents).error,
          store |-> [store EXCEPT !.documents = documents]]
    ELSE IF documents = <<>>
    THEN \* normalize() / shape[1] of an empty array
         [raised |-> TRUE, error |-> "ValueError",
          store |-> [store EXCEPT !.documents = documents]]
    ELSE [raised |-> FALSE, error |-> None,
              store |-> [documents |-> documents,
                         index |-> Built(encode(documents).value),
                         bm25 |-> Built([i \in 1..Len(documents) |->
                                           Split(documents[i])])]]

\* Positions of S by descending score; equal scores: lower position first
\* (faiss IndexFlatIP.search).
RECURSIVE RankDescLow(_, _)
RankDescLow(S, sc) ==
    IF S = {} THEN <<>>
    ELSE LET m == CHOOSE i \in S :
                    \A j \in S : sc[i] > sc[j] \/ (sc[i] = sc[j] /\ i <= j)
         IN  <<m>> \o RankDescLow(S \ {m}, sc)

\* scores.argsort()[::-1]: ascending stable sort (numpy sorts short arrays by
\* insertion), reversed; equal scores: higher position first.
RECURSIVE RankDescHigh(_, _)
RankDescHigh(S, sc) ==
    IF S = {} THEN <<>>
    ELSE LET m == CHOOSE i \in S :
                    \A j \in S : sc[i] > sc[j] \/ (sc[i] = sc[j] /\ i >= j)
         IN  <<m>> \o RankDescHigh(S \ {m}, sc)

\* The rows of the dense index scored against the query: positions by
\* descending inner product, at most k of them.
DenseTop(store, query, k, o) ==
    Take(RankDescLow(1..Len(store.index.rows),
                     [i \in 1..Len(store.index.rows) |->
                        o.vec[<<query, store.index.rows[i]>>]]), k)

\* [(self.documents[i], float(score)) for i, score in zip(indices, scores)]
DenseResults(store, query, o, top) ==
    IF \E i \in Range(top) : i > Len(store.documents)
    THEN Raise("IndexError")
    ELSE Ret([j \in 1..Len(top) |->
                <<store.documents[top[j]], o.vec[<<query, store.index.rows[top[j]]>>]>>])

\* VectorStore.semantic_search
semantic_search(store, query, k, o) ==
    IF encode(query).raised THEN Raise(encode(query).error)
    ELSE IF store.index.is_none THEN Raise("AttributeError")
    ELSE DenseResults(store, query, o, DenseTop(store, query, k, o))

\* A dict built from (key, value) pairs in order: the last value of a key wins.
DictOf(pairs) ==
    [d \in { pairs[i][1] : i \in 1..Len(pairs) } |->
        LET last == CHOOSE i \in 1..Len(pairs) :
                       /\ pairs[i][1] = d
                       /\ \A j \in 1..Len(pairs) : pairs[j][1] = d => j <= i
        IN  pairs[last][2]]

SetMin(S) == CHOOSE x \in S : \A y \in S : x <= y
SetMax(S) == CHOOSE x \in S : \A y \in S : x >= y

\* dict.get(doc, 0.0)
Get(dict, doc) == IF doc \in DOMAIN dict THEN dict[doc] ELSE 0

\* (bm25_score - min) / (max - min + 1e-9), in thousandths
NormBm25(b, lo, hi) ==
    IF hi > lo THEN ((b - lo) * One) \div (hi - lo)
    ELSE (b - lo) * One

\* list.sort(key=score, reverse=True) over the documents of a set: the order of
\* equal scores follows the set's iteration order, here an arbitrary one.
RECURSIVE SortDesc(_)
SortDesc(S) ==
    IF S = {} THEN <<>>
    ELSE LET m == CHOOSE x \in S : \A y \in S : x[2] >= y[2]
         IN  <<m>> \o SortDesc(S \ {m})

\* bm25_scores.argsort()[-k:][::-1] with the documents' scores
Bm25Top(store, query, k, o) ==
    Take(RankDescHigh(1..Len(store.bm25.rows),
                      [i \in 1..Len(store.bm25.rows) |->
                         o.lex[<<Split(query), store.bm25.rows[i]>>]]), k)

\* bm25_results = {self.documents[i]: float(bm25_scores[i]) for i in ...}
Bm25Results(store, query, o, btop) ==
    DictOf([j \in 1..Len(btop) |->
              <<store.documents[btop[j]],
                o.lex[<<Split(query), store.bm25.rows[btop[j]]>>]>>])

\* alpha * vec_score + (1 - alpha) * norm_bm25
Combined(al, vec_score, bm25_score, lo, hi) ==
    (al * vec_score + (One - al) * NormBm25(bm25_score, lo, hi)) \div One

BmValues(bm25_results) == { bm25_results[d] : d \in DOMAIN bm25_results }

\* The union of both candidate sets scored, sorted, cut to k.
Combine(k, al, vector_scores, bm25_results, lo, hi) ==
    Take(SortDesc({ <<d, Combined(al, Get(vector_scores, d), Get(bm25_results, d),
                                  lo, hi)>> :
                      d \in DOMAIN vector_scores \cup DOMAIN bm25_results }), k)

\* min()/max() of an empty bm25_results raise once a document is scored.
CombineDicts(k, al, vector_scores, bm25_results) ==
    IF DOMAIN bm25_results = {}
    THEN (IF DOMAIN vector_scores = {} THEN Ret(<<>>) ELSE Raise("ValueError"))
    ELSE Ret(Combine(k, al, vector_scores, bm25_results,
                     SetMin(BmValues(bm25_results)), SetMax(BmValues(bm25_results))))

\* The part of hybrid_search after the vector search returned vr.
HybridAfterVector(store, query, k, al, o, vr, btop) ==
    IF vr.raised THEN Raise(vr.error)
    ELSE IF store.bm25.is_none THEN Raise("AttributeError")
    ELSE IF \E i \in Range(btop) : i > Len(store.documents)
    THEN Raise("IndexError")
    ELSE CombineDicts(k, al, DictOf(vr.value), Bm25Results(store, query, o, btop))

\* VectorStore.hybrid_search
hybrid_search(store, query, k, al, o) ==
    HybridAfterVector(store, query, k, al, o,
                      semantic_search(store, query, k, o),
                      IF store.bm25.is_none THEN <<>>
                      ELSE Bm25Top(store, query, k, o))

\* The part of keyword_search that reads the BM25 index.
KeywordIndexed(store, query, k, o, btop) ==
    IF \E i \in Range(btop) : i > Len(store.documents)
    THEN Raise("IndexError")
    ELSE Ret([j \in 1..Len(btop) |->
                <<store.documents[btop[j]],
                  o.lex[<<Split(query), store.bm25.rows[btop[j]]>>]>>])

\* Mutant: a store without a BM25 index answers with no results.
keyword_search_empty_when_unindexed(store, query, k, o) ==
    IF store.bm25.is_none THEN Ret(<<>>)
    ELSE KeywordIndexed(store, query, k, o, Bm25Top(store, query, k, o))

\* VectorStore.keyword_search: self.bm25 is None until add_documents built it,
\* and None has no get_scores.
keyword_search(store, query, k, o) ==
    IF store.bm25.is_none THEN Raise("AttributeError")
    ELSE KeywordIndexed(store, query, k, o, Bm25Top(store, query, k, o))

\* --------------------------------------------------------------- ReRanker
\* ReRanker.__init__ defines `device` and `model` as functions local to
\* __init__, as Embeddings.__init__ does.
ReRanker_has_model == FALSE

\* The module-level vector_store is built with a ReRanker.
has_reranker == TRUE

\* ReRanker.rerank: score the pairs, sort by score (stable, descending), cut.
rerank(query, documents, k, o) ==
    IF ~ReRanker_has_model THEN Raise("AttributeError")
    ELSE Ret(LET order == RankDescLow(1..Len(documents),
                             [i \in 1..Len(documents) |-> o.rr[<<query, documents[i]>>]])
             IN  Take([j \in 1..Len(order) |->
                         <<documents[order[j]], o.rr[<<query, documents[order[j]]>>]>>], k))

SearchTypes == {"hybrid", "semantic", "keyword"}

\* k * 100 if self.reranker else k
FirstStageK(k) == IF has_reranker THEN k * 100 ELSE k

\* docs = [doc for doc, _ in results]
DocsOf(results) == [j \in 1..Len(results) |-> results[j][1]]

\* The re-ranking stage of search and the final results[:k].
AfterFirstStage(query, k, o, results) ==
    IF results.raised THEN Raise(results.error)
    ELSE IF has_reranker
    THEN (IF rerank(query, DocsOf(results.value), k, o).raised
          THEN Raise(rerank(query, DocsOf(results.value), k, o).error)
          ELSE Ret(Take(rerank(query, DocsOf(results.value), k, o).value, k)))
    ELSE Ret(Take(results.value, k))

\* VectorStore.search
search(store, query, k, search_type, al, o) ==
    AfterFirstStage(query, k, o,
        IF search_type = "hybrid"
        THEN hybrid_search(store, query, FirstStageK(k), al, o)
        ELSE IF search_type = "semantic"
        THEN semantic_search(store, query, FirstStageK(k), o)
        ELSE keyword_search(store, query, FirstStageK(k), o))

\* ------------------------------------------- filter_duplicate_comments
\* comment_bodies = [c.body for c in comments]
BodiesOf(cs) == [i \in 1..Len(cs) |-> cs[i].body]

\* list.index(x): the first position holding x
IndexOf(s, x) == CHOOSE i \in 1..Len(s) : s[i] = x /\ \A j \in 1..(i - 1) : s[j] # x

\* The positions a search result r suppresses for the comment with text body:
\* comment_bodies.index(sim_body) of every result with another text and a
\* score >= threshold.
Duplicates(bodies, body, thr, r) ==
    { j \in 1..Len(r.value) : r.value[j][1] # body /\ r.value[j][2] >= thr }

Hits(bodies, r, dup) == { IndexOf(bodies, r.value[j][1]) : j \in dup }

\* Position i is kept and has issued its search, which returned r.
Kept(comments, bodies, thr, st, r, dup) ==
    IF r.raised
    THEN [st EXCEPT !.unique = Append(@, comments[st.i]),
                    !.calls = Append(@, "hybrid_search"),
                    !.raised = TRUE, !.error = r.error]
    ELSE IF \E j \in dup : r.value[j][1] \notin Range(bodies)
    THEN [st EXCEPT !.unique = Append(@, comments[st.i]),
                    !.calls = Append(@, "hybrid_search"),
                    !.raised = TRUE, !.error = "ValueError"]
    ELSE [st EXCEPT !.unique = Append(@, comments[st.i]),
                    !.calls = Append(@, "hybrid_search"),
                    !.seen = @ \cup {st.i} \cup Hits(bodies, r, dup),
                    !.flagged = @ \cup { <<st.i, h>> : h \in Hits(bodies, r, dup) },
                    !.i = @ + 1]

KeptAfterSearch(comments, bodies, thr, st, r) ==
    Kept(comments, bodies, thr, st, r, Duplicates(bodies, bodies[st.i], thr, r))

\* The loop over enumerate(comment_bodies).  st holds the position i,
\* unique_comments, seen, the store calls made and the pairs <<i, j>> where the
\* search issued for position i suppressed position j.
RECURSIVE FilterLoop(_, _, _, _, _, _, _)
FilterLoop(comments, bodies, thr, al, store, o, st) ==
    IF st.i > Len(bodies) \/ st.raised THEN st
    ELSE FilterLoop(comments, bodies, thr, al, store, o,
            IF st.i \in st.seen THEN [st EXCEPT !.i = @ + 1]
            ELSE KeptAfterSearch(comments, bodies, thr, st,
                    hybrid_search(store, bodies[st.i], Len(bodies), al, o)))

LoopStart == [i |-> 1, unique |-> <<>>, seen |-> {}, flagged |-> {},
              calls |-> <<"add_documents">>, raised |-> FALSE, error |-> None]

FilterReturn(store, st) ==
    [raised |-> st.raised, error |-> st.error,
     value |-> IF st.raised THEN <<>> ELSE st.unique,
     store |-> store, calls |-> st.calls, flagged |-> st.flagged]

\* add_documents returned ad; run the loop unless it raised.
FilterIndexed(comments, bodies, thr, al, o, ad) ==
    IF ad.raised
    THEN [raised |-> TRUE, error |-> ad.error, value |-> <<>>,
          store |-> ad.store, calls |-> LoopStart.calls, flagged |-> {}]
    ELSE FilterReturn(ad.store,
                      FilterLoop(comments, bodies, thr, al, ad.store, o, LoopStart))

\* Lines after the empty-list guard: index the bodies, walk them, return
\* unique_comments.
filter_body(comments, thr, al, store, o) ==
    FilterIndexed(comments, BodiesOf(comments), thr, al, o,
                  add_documents(store, BodiesOf(comments)))

\* Mutant: the guard `if not comments: return []` is missing.
filter_duplicate_comments_no_guard(comments, thr, al, store, o) ==
    filter_body(comments, thr, al, store, o)

\* RedditThreadPipeline.filter_duplicate_comments (RedditCommentsPipeline's is
\* the same code): result, the store it leaves, the store calls it made.
filter_duplicate_comments(comments, thr, al, store, o) ==
    IF comments = <<>>
    THEN [raised |-> FALSE, error |-> None, value |-> <<>>,
          store |-> store, calls |-> <<>>, flagged |-> {}]
    ELSE filter_body(comments, thr, al, store, o)


\* ---------------------------------------------------------- get_comments
\* [comment for comment in post.comments if comment.length <= max_comment_length]
LengthFilterNone(cs, maxlen) == cs
LengthFilter(cs, maxlen) == SelectSeq(cs, LAMBDA c : length(c) <= maxlen)

\* sorted(comments, key=score, reverse=True): stable, descending
RECURSIVE InsertDesc(_, _)
InsertDesc(sorted, c) ==
    IF sorted = <<>> THEN <<c>>
    ELSE IF Head(sorted).score >= c.score
         THEN <<Head(sorted)>> \o InsertDesc(Tail(sorted), c)
         ELSE <<c>> \o sorted

RECURSIVE SortByScoreFrom(_, _)
SortByScoreFrom(cs, acc) ==
    IF cs = <<>> THEN acc ELSE SortByScoreFrom(Tail(cs), InsertDesc(acc, Head(cs)))

SortByScore(cs) == SortByScoreFrom(cs, <<>>)

\* The frame of a get_comments call.
IdleFrame == [pc |-> "idle", comments |-> <<>>, next |-> 1, duration |-> 0,
              processed_comments |-> <<>>, error |-> None, returned |-> <<>>]

\* Entering the for loop over `comments`; an empty list falls through to the
\* return.
EnterLoop(cs) ==
    [IdleFrame EXCEPT !.pc = IF cs = <<>> THEN "returned" ELSE "loop",
                      !.comments = cs]

\* Mutant: a failed duplicate filter is swallowed and the unfiltered list used.
AfterFilterFallback(fr, unfiltered) ==
    EnterLoop(IF fr.raised THEN unfiltered ELSE fr.value)

\* `comments = self.filter_duplicate_comments(comments)`: no handler, an
\* exception leaves get_comments.
AfterFilter(fr, unfiltered) ==
    IF fr.raised
    THEN [IdleFrame EXCEPT !.pc = "raised", !.error = fr.error]
    ELSE EnterLoop(fr.value)

\* The result of not filtering.
NotFiltered(cs, store) ==
    [raised |-> FALSE, error |-> None, value |-> cs, store |-> store,
     calls |-> <<>>, flagged |-> {}]

\* Mutants of the comparison `duration < settings.MIN_VIDEO_DURATION`.
ContinueLoopCountingGap(duration) == duration + silence_duration < MIN_VIDEO_DURATION
ContinueLoopAlways(duration) == TRUE

\* `if duration < settings.MIN_VIDEO_DURATION: ... continue / else: break`
ContinueLoop(duration) == duration < MIN_VIDEO_DURATION

\* Mutant: the gap is charged together with the clip, before the comparison.
AddClipAndGap(duration, d) == duration + d + silence_duration

\* `duration += get_audio_duration(comment.audio_path)`
AddClip(duration, d) == duration + d

\* Mutant: a failed clip is skipped and the loop goes on with the next one.
SkipCandidate(fr, e) ==
    IF fr.next = Len(fr.comments)
    THEN [fr EXCEPT !.pc = "returned", !.returned = fr.processed_comments]
    ELSE [fr EXCEPT !.next = @ + 1]

\* generate_audio_clip / get_audio_duration raise inside the loop body: there
\* is no handler, the exception leaves get_comments.
Propagate(fr, e) == [fr EXCEPT !.pc = "raised", !.error = e]

\* Mutant: the comment is appended only on the `continue` branch, so the one
\* that reaches the target is synthesized and measured but not returned.
AcceptAppendsOnContinue(fr, d) ==
    LET c    == fr.comments[fr.next]
        dur  == AddClip(fr.duration, d)
        proc == Append(fr.processed_comments, c)
    IN  IF ContinueLoop(dur)
        THEN IF fr.next = Len(fr.comments)
             THEN [fr EXCEPT !.duration = dur + silence_duration,
                             !.processed_comments = proc,
                             !.pc = "returned", !.returned = proc]
             ELSE [fr EXCEPT !.duration = dur + silence_duration,
                             !.processed_comments = proc,
                             !.next = @ + 1]
        ELSE [fr EXCEPT !.duration = dur,
                        !.pc = "returned", !.returned = fr.processed_comments]

\* The rest of the loop body once the clip's duration d is known.
Accept(fr, d) ==
    LET c    == fr.comments[fr.next]
        dur  == AddClip(fr.duration, d)
        proc == Append(fr.processed_comments, c)
    IN  IF ContinueLoop(dur)
        THEN IF fr.next = Len(fr.comments)
             THEN [fr EXCEPT !.duration = dur + silence_duration,
                             !.processed_comments = proc,
                             !.pc = "returned", !.returned = proc]
             ELSE [fr EXCEPT !.duration = dur + silence_duration,
                             !.processed_comments = proc,
                             !.next = @ + 1]
        ELSE [fr EXCEPT !.duration = dur, !.processed_comments = proc,
                        !.pc = "returned", !.returned = proc]

\* What generate_audio_clip does: synthesize, skip because the file exists,
\* or raise.
GenOutcomes == {"generated", "exists", "raise"}


\* The list the duplicate filter (if any) is applied to.
Prepared(p, sort, maxlen) ==
    LET kept == LengthFilter(p, maxlen)
    IN  IF sort THEN SortByScore(kept) ELSE kept

\* ------------------------------------------------- the wrappers on their own
\* Embeddings.__init__ / ReRanker.__init__: self._model = None; `loads` counts
\* the constructions of the underlying model.
WrapperInit == [_model |-> None, loads |-> 0]

\* The `model` property: load on first use, reuse afterwards.
LoadOnce(w, name) ==
    IF w._model = None THEN [_model |-> name, loads |-> w.loads + 1] ELSE w

\* Embeddings.encode on the instance w: the instance afterwards and the outcome.
Embeddings_encode(w, text) ==
    IF Embeddings_has_model
    THEN [self |-> LoadOnce(w, "SentenceTransformer"), result |-> encode(text)]
    ELSE [self |-> w, result |-> encode(text)]

\* ReRanker.rerank on the instance w.
ReRanker_rerank(w, query, documents, k, o) ==
    IF ReRanker_has_model
    THEN [self |-> LoadOnce(w, "CrossEncoder"), result |-> rerank(query, documents, k, o)]
    ELSE [self |-> w, result |-> rerank(query, documents, k, o)]

\* The number of calls made on a wrapper and the last of them.
NoEncode == [calls |-> 0, text |-> <<>>, raised |-> FALSE, error |-> None]
NoRerank == [calls |-> 0, query |-> <<>>, documents |-> <<>>, k |-> 0,
             raised |-> FALSE, error |-> None]

WrappersInit == [embeddings |-> WrapperInit, reranker |-> WrapperInit,
                 encode |-> NoEncode, rerank |-> NoRerank]

\* ------------------------------------------------------------------- run()
\* The run() coroutines that share the event loop and the vector_store.
Coroutines == {"c1", "c2"}

\* remove_duplicates / sort_by_score the pipeline is constructed with.
Configs == [remove_duplicates : BOOLEAN, sort_by_score : BOOLEAN]

\* The threads get_reddit_object returns to run().
RunKinds == << [body |-> <<"a">>, score |-> 5],
               [body |-> <<" ", "a", "b", " ">>, score |-> 9],
               [body |-> <<"a", "b", "c">>, score |-> 5] >>

RunPost(m) == WithIds([i \in 1..m |-> RunKinds[((i - 1) % Len(RunKinds)) + 1]])

RunPosts == { RunPost(m) : m \in 0..MaxRunComments }

\* Clip durations (ms) during a run: every clip of the thread lasts d.
RunDurations == {34900, 70000}

\* No pipeline object yet.
NotConstructed ==
    [pc |-> "none",
     cfg |-> [remove_duplicates |-> TRUE, sort_by_score |-> FALSE],
     called |-> [sort_by_score |-> FALSE, filter_duplicates |-> FALSE],
     post |-> <<>>, comments |-> <<>>, store_calls |-> <<>>,
     filter_raised |-> FALSE, captures |-> <<>>, media |-> <<>>,
     saved |-> FALSE, error |-> None]

\* RedditThreadPipeline.__init__: the flags are stored as given.
Created(cfg) == [NotConstructed EXCEPT !.pc = "created", !.cfg = cfg]

\* The for loop of get_comments run to its end; candidate `fail` (0: none)
\* is the one whose synthesis or probe raises e.
RECURSIVE LoopToEnd(_, _, _, _)
LoopToEnd(fr, d, fail, e) ==
    IF fr.pc # "loop" THEN fr
    ELSE IF fr.next = fail THEN Propagate(fr, e)
    ELSE LoopToEnd(Accept(fr, d), d, fail, e)

\* get_comments after the optional filter returned fr.
GetCommentsAfterFilter(fr, cs, d, fail, e) ==
    [frame |-> LoopToEnd(AfterFilter(fr, cs), d, fail, e),
     store |-> fr.store, calls |-> fr.calls, filter_raised |-> fr.raised]

\* RedditThreadPipeline.get_comments(post, sort_by_score, filter_duplicates),
\* a plain function: it runs from its first to its last line inside one step of
\* the coroutine that calls it.
get_comments(p, sort_by_score, filter_duplicates, maxlen, store, o, d, fail, e) ==
    GetCommentsAfterFilter(
        IF filter_duplicates
        THEN filter_duplicate_comments(Prepared(p, sort_by_score, maxlen),
                                       threshold, alpha, store, o)
        ELSE NotFiltered(Prepared(p, sort_by_score, maxlen), store),
        Prepared(p, sort_by_score, maxlen), d, fail, e)

\* `self.get_comments(post, self.remove_duplicates, self.sort_by_score)` against
\* the signature get_comments(post, sort_by_score, filter_duplicates): the
\* arguments are bound by position.
CallGetComments(cfg) ==
    [sort_by_score |-> cfg.remove_duplicates, filter_duplicates |-> cfg.sort_by_score]

\* asyncio.gather(take_post_screenshot(post), *(take_comment_screenshot(c) ...)):
\* position 1 is the capture of the post, position i + 1 that of comments[i].
Launch(comments) == [t \in 1..(Len(comments) + 1) |-> "pending"]

\* Mutant: the await returns as soon as one capture has completed.
JoinedAny(captures) ==
    captures # <<>> /\ \E t \in 1..Len(captures) : captures[t] = "done"

\* The awaited gather returns once every capture has completed.
Joined(captures) ==
    captures # <<>> /\ \A t \in 1..Len(captures) : captures[t] = "done"

\* The synchronous rest of run(): the stages in order.
Stages == << "generate_post_media", "generate_comments_media", "generate_outro_media",
             "get_reddit_videos", "get_background_video", "generate_reel_video",
             "save_record" >>

\* ------------------------------------------------------------------ state
VARIABLES
    max_comment_length,  \* the pipeline's self.max_comment_length
    vector_store,        \* the module-level VectorStore the pipelines share
    post,                \* post.comments of the call in progress
    clip,                \* comment_id -> duration of the clip at its audio_path
    args,                \* sort_by_score, filter_duplicates of the call
    gc,                  \* the frame of get_comments
    compared,            \* history: the values compared with MIN_VIDEO_DURATION
    tts_calls,           \* history: comment ids passed to generate_audio_clip
    probe_calls,         \* history: comment ids passed to get_audio_duration
    store_calls,         \* history: calls made on vector_store
    failures,            \* history: which collaborators raised
    f,                   \* filter_duplicate_comments applied on its own
    api,                 \* the last call made directly on vector_store
    wrappers,            \* the Embeddings and ReRanker instances used directly
    runs                 \* the frame of each run() coroutine

vars == <<max_comment_length, vector_store, post, clip, args, gc, compared,
          tts_calls, probe_calls, store_calls, failures, f, api, wrappers, runs>>

pipeline_vars == <<post, clip, args, gc, compared, tts_calls, probe_calls,
                   store_calls, failures>>

\* No call was made on the store yet: `adds` counts the add_documents calls,
\* `added` is the list the last of them was given, `before` the store the last
\* call found, `oracle` the scores the models gave during it.
NoCall == [op |-> "none", adds |-> 0, added |-> <<>>, query |-> <<>>, k |-> 0,
           al |-> 0, search_type |-> "none", raised |-> FALSE, error |-> None,
           value |-> <<>>, before |-> VectorStoreInit, oracle |-> NoScores]

NoResult == [raised |-> FALSE, error |-> None, value |-> <<>>, flagged |-> {},
             calls |-> <<>>]

\* thresholds and alphas filter_duplicate_comments is applied with
Thresholds == {500, threshold}
Alphas == {0, alpha, One}

Init ==
    /\ max_comment_length \in MaxCommentLengths
    /\ vector_store = VectorStoreInit
    /\ post = <<>>
    /\ clip = <<>>
    /\ args = [sort_by_score |-> FALSE, filter_duplicates |-> TRUE]
    /\ gc = IdleFrame
    /\ compared = <<>>
    /\ tts_calls = <<>>
    /\ probe_calls = <<>>
    /\ store_calls = <<>>
    /\ failures = {}
    /\ f = [pc |-> "start", comments |-> <<>>, thr |-> threshold, al |-> alpha,
            oracle |-> NoScores, first |-> NoResult, second |-> NoResult]
    /\ api = NoCall
    /\ wrappers = WrappersInit
    /\ runs = [c \in Coroutines |-> NotConstructed]

\* get_comments up to the for loop: length filter, optional sort, optional
\* duplicate filter.
GetComments ==
    /\ gc.pc = "idle"
    /\ \E p \in Posts, sort \in BOOLEAN, filt \in BOOLEAN :
       \E cl \in [1..Len(p) -> Durations] :
          LET cs == Prepared(p, sort, max_comment_length)
          IN  \E o \in Oracles(BodiesOf(cs)) :
                LET fr == IF filt
                          THEN filter_duplicate_comments(cs, threshold, alpha,
                                                         vector_store, o)
                          ELSE NotFiltered(cs, vector_store)
                IN  /\ post' = p
                    /\ clip' = cl
                    /\ args' = [sort_by_score |-> sort, filter_duplicates |-> filt]
                    /\ vector_store' = fr.store
                    /\ store_calls' = fr.calls
                    /\ failures' = IF fr.raised THEN {"filter"} ELSE {}
                    /\ gc' = AfterFilter(fr, cs)
    /\ UNCHANGED <<max_comment_length, compared, tts_calls, probe_calls, f, api,
                   wrappers, runs>>

\* One pass of the loop body in which generate_audio_clip raises.
IterateTtsFails ==
    /\ gc.pc = "loop"
    /\ tts_calls' = Append(tts_calls, gc.comments[gc.next].id)
    /\ failures' = failures \cup {"tts"}
    /\ gc' = Propagate(gc, "TTSError")
    /\ UNCHANGED <<max_comment_length, vector_store, post, clip, args, compared,
                   probe_calls, store_calls, f, api,
                   wrappers, runs>>

\* One pass of the loop body in which get_audio_duration raises.
IterateProbeFails ==
    /\ gc.pc = "loop"
    /\ tts_calls' = Append(tts_calls, gc.comments[gc.next].id)
    /\ probe_calls' = Append(probe_calls, gc.comments[gc.next].id)
    /\ failures' = failures \cup {"probe"}
    /\ gc' = Propagate(gc, "ProbeError")
    /\ UNCHANGED <<max_comment_length, vector_store, post, clip, args, compared,
                   store_calls, f, api,
                   wrappers, runs>>

\* One pass of the loop body in which both calls succeed (the clip is
\* synthesized, or generate_audio_clip finds the file and skips).
IterateAccept ==
    /\ gc.pc = "loop"
    /\ \E gen \in GenOutcomes \ {"raise"} :
          LET c == gc.comments[gc.next]
          IN  /\ tts_calls' = Append(tts_calls, c.id)
              /\ probe_calls' = Append(probe_calls, c.id)
              /\ compared' = Append(compared, AddClip(gc.duration, clip[c.id]))
              /\ gc' = Accept(gc, clip[c.id])
    /\ UNCHANGED <<max_comment_length, vector_store, post, clip, args,
                   store_calls, failures, f, api,
                   wrappers, runs>>

Next == GetComments \/ IterateTtsFails \/ IterateProbeFails \/ IterateAccept

Spec == Init /\ [][Next]_vars

\* ------------------------------ filter_duplicate_comments applied on its own
FilterOnce ==
    /\ f.pc = "start"
    /\ \E p \in Posts, thr \in Thresholds, al \in Alphas :
       \E o \in Oracles(BodiesOf(p)) :
          LET r == filter_duplicate_comments(p, thr, al, vector_store, o)
          IN  /\ f' = [f EXCEPT !.pc = "once", !.comments = p, !.thr = thr,
                                !.al = al, !.oracle = o,
                                !.first = [raised |-> r.raised, error |-> r.error,
                                           value |-> r.value, flagged |-> r.flagged,
                                           calls |-> r.calls]]
              /\ vector_store' = r.store
    /\ UNCHANGED <<max_comment_length, pipeline_vars, api,
                   wrappers, runs>>

\* filter_duplicate_comments applied to what the first application returned.
FilterTwice ==
    /\ f.pc = "once"
    /\ ~f.first.raised
    /\ \E o \in Oracles(BodiesOf(f.first.value)) :
          LET r == filter_duplicate_comments(f.first.value, f.thr, f.al,
                                             vector_store, o)
          IN  /\ f' = [f EXCEPT !.pc = "twice",
                                !.second = [raised |-> r.raised, error |-> r.error,
                                            value |-> r.value, flagged |-> r.flagged,
                                           calls |-> r.calls]]
              /\ vector_store' = r.store
    /\ UNCHANGED <<max_comment_length, pipeline_vars, api,
                   wrappers, runs>>

NextFilter == FilterOnce \/ FilterTwice

SpecFilter == Init /\ [][NextFilter]_vars


\* ------------------------------------------- the VectorStore used directly
\* The record of a search call and its outcome.
Called(op, query, k, al, search_type, o, r) ==
    [api EXCEPT !.op = op, !.query = query, !.k = k, !.al = al,
                !.search_type = search_type, !.raised = r.raised,
                !.error = r.error, !.value = r.value, !.before = vector_store,
                !.oracle = o]

AddDocuments ==
    /\ api.adds < MaxAdds
    /\ \E documents \in DocLists :
          LET r == add_documents(vector_store, documents)
          IN  /\ vector_store' = r.store
              /\ api' = [NoCall EXCEPT !.op = "add_documents", !.adds = api.adds + 1,
                                       !.added = documents, !.raised = r.raised,
                                       !.error = r.error, !.before = vector_store]
    /\ UNCHANGED <<max_comment_length, pipeline_vars, f,
                   wrappers, runs>>

SemanticSearch ==
    /\ \E query \in Texts, k \in Ks :
       \E o \in Oracles(Append(vector_store.documents, query)) :
          api' = Called("semantic_search", query, k, 0, "none", o,
                        semantic_search(vector_store, query, k, o))
    /\ UNCHANGED <<max_comment_length, vector_store, pipeline_vars, f,
                   wrappers, runs>>

KeywordSearch ==
    /\ \E query \in Texts, k \in Ks :
       \E o \in Oracles(Append(vector_store.documents, query)) :
          api' = Called("keyword_search", query, k, 0, "none", o,
                        keyword_search(vector_store, query, k, o))
    /\ UNCHANGED <<max_comment_length, vector_store, pipeline_vars, f,
                   wrappers, runs>>

HybridSearch ==
    /\ \E query \in Texts, k \in Ks, al \in Alphas :
       \E o \in Oracles(Append(vector_store.documents, query)) :
          api' = Called("hybrid_search", query, k, al, "none", o,
                        hybrid_search(vector_store, query, k, al, o))
    /\ UNCHANGED <<max_comment_length, vector_store, pipeline_vars, f,
                   wrappers, runs>>

Search ==
    /\ \E query \in Texts, k \in Ks, al \in Alphas, search_type \in SearchTypes :
       \E o \in Oracles(Append(vector_store.documents, query)) :
          api' = Called("search", query, k, al, search_type, o,
                        search(vector_store, query, k, search_type, al, o))
    /\ UNCHANGED <<max_comment_length, vector_store, pipeline_vars, f,
                   wrappers, runs>>

NextStore == AddDocuments \/ SemanticSearch \/ KeywordSearch \/ HybridSearch \/ Search

SpecStore == Init /\ [][NextStore]_vars

\* ------------------------------------------------ the wrappers used directly
EncodeCall ==
    /\ wrappers.encode.calls < MaxCalls
    /\ \E text \in Texts :
          LET r == Embeddings_encode(wrappers.embeddings, text)
          IN  wrappers' = [wrappers EXCEPT
                             !.embeddings = r.self,
                             !.encode = [calls |-> @.calls + 1, text |-> text,
                                         raised |-> r.result.raised,
                                         error |-> r.result.error]]
    /\ UNCHANGED <<max_comment_length, vector_store, pipeline_vars, f, api, runs>>

RerankCall ==
    /\ wrappers.rerank.calls < MaxCalls
    /\ \E query \in Texts, documents \in DocLists, k \in Ks :
       \E o \in Oracles(Append(documents, query)) :
          LET r == ReRanker_rerank(wrappers.reranker, query, documents, k, o)
          IN  wrappers' = [wrappers EXCEPT
                             !.reranker = r.self,
                             !.rerank = [calls |-> @.calls + 1, query |-> query,
                                         documents |-> documents, k |-> k,
                                         raised |-> r.result.raised,
                                         error |-> r.result.error]]
    /\ UNCHANGED <<max_comment_length, vector_store, pipeline_vars, f, api, runs>>

NextWrappers == EncodeCall \/ RerankCall

SpecWrappers == Init /\ [][NextWrappers]_vars

\* -------------------------------------------------------- run() coroutines
\* Candidates whose synthesis may fail during a run (0: none fails).
FailPoints == {0, 1}

\* Number of stages the synchronous rest of run() completes before one raises
\* (all of them: none raises).
FinishPoints == {0, 2, Len(Stages)}

\* The frame of run() once get_comments returned or raised g: on a return the
\* coroutine enters take_screenshots and suspends in the awaited gather with
\* every capture launched.
AfterSelection(r, p, called, g) ==
    IF g.frame.pc = "raised"
    THEN [r EXCEPT !.pc = "raised", !.error = g.frame.error, !.post = p,
                   !.called = called, !.store_calls = g.calls,
                   !.filter_raised = g.filter_raised]
    ELSE [r EXCEPT !.pc = "capturing", !.post = p, !.called = called,
                   !.store_calls = g.calls, !.filter_raised = g.filter_raised,
                   !.comments = g.frame.returned,
                   !.captures = Launch(g.frame.returned)]

\* The pipeline object is constructed.
Construct ==
    /\ \E c \in Coroutines, cfg \in Configs :
          /\ runs[c].pc = "none"
          /\ runs' = [runs EXCEPT ![c] = Created(cfg)]
    /\ UNCHANGED <<max_comment_length, vector_store, pipeline_vars, f, api, wrappers>>

\* run() from its first line to its first suspension: get_reddit_object,
\* get_comments, and the launch of the captures.
RunSelect ==
    /\ \E c \in Coroutines, p \in RunPosts, d \in RunDurations, fail \in FailPoints,
          e \in {"TTSError", "ProbeError"} :
          /\ runs[c].pc = "created"
          /\ \E o \in Oracles(BodiesOf(Prepared(p, CallGetComments(runs[c].cfg).sort_by_score,
                                                max_comment_length))) :
                LET called == CallGetComments(runs[c].cfg)
                    g == get_comments(p, called.sort_by_score, called.filter_duplicates,
                                      max_comment_length, vector_store, o, d, fail, e)
                IN  /\ runs' = [runs EXCEPT ![c] = AfterSelection(runs[c], p, called, g)]
                    /\ vector_store' = g.store
    /\ UNCHANGED <<max_comment_length, pipeline_vars, f, api, wrappers>>

\* One of the launched captures completes (or finds its image on disk).
CaptureDone ==
    /\ \E c \in Coroutines :
          /\ runs[c].pc = "capturing"
          /\ \E t \in 1..Len(runs[c].captures) :
                /\ runs[c].captures[t] = "pending"
                /\ runs' = [runs EXCEPT ![c].captures[t] = "done"]
    /\ UNCHANGED <<max_comment_length, vector_store, pipeline_vars, f, api, wrappers>>

\* One of the launched captures raises: gather hands the exception to the
\* awaiting run(), which has no handler.  Nothing awaits the other captures
\* any more; they are not followed further.
CaptureFail ==
    /\ \E c \in Coroutines :
          /\ runs[c].pc = "capturing"
          /\ \E t \in 1..Len(runs[c].captures) :
                /\ runs[c].captures[t] = "pending"
                /\ runs' = [runs EXCEPT ![c].captures[t] = "failed",
                                        ![c].pc = "raised",
                                        ![c].error = "CaptureError"]
    /\ UNCHANGED <<max_comment_length, vector_store, pipeline_vars, f, api, wrappers>>

\* The await returned: the rest of run() is synchronous, up to save_record
\* or to the first stage that raises.
RunFinish ==
    /\ \E c \in Coroutines, n \in FinishPoints :
          /\ runs[c].pc = "capturing"
          /\ Joined(runs[c].captures)
          /\ runs' = [runs EXCEPT
                        ![c].media = Take(Stages, n),
                        ![c].saved = (n = Len(Stages)),
                        ![c].pc = IF n = Len(Stages) THEN "done" ELSE "raised",
                        ![c].error = IF n = Len(Stages) THEN None ELSE "MediaError"]
    /\ UNCHANGED <<max_comment_length, vector_store, pipeline_vars, f, api, wrappers>>

NextRun == Construct \/ RunSelect \/ CaptureDone \/ CaptureFail \/ RunFinish

SpecRun == Init /\ [][NextRun]_vars

\* ============================================================ properties

\* Sum of the clip durations of the first n comments of cs.
RECURSIVE SumClips(_, _)
SumClips(cs, n) == IF n = 0 THEN 0 ELSE SumClips(cs, n - 1) + clip[cs[n].id]

\* Accepted total of the first n comments: their durations plus one silence
\* gap between each consecutive pair.
Measure(cs, n) == IF n = 0 THEN 0 ELSE SumClips(cs, n) + silence_duration * (n - 1)

Ids(cs) == { cs[i].id : i \in 1..Len(cs) }

TooLong(c) == length(c) > max_comment_length

\* ---- C1 (as claimed; refuted by the code)
\* C1: filter_duplicate_comments returns an order-preserving subsequence of its
\* input: every returned comment is the input comment at its position, the
\* positions strictly increase, and every omitted position was flagged by the
\* search issued for a kept comment at an earlier position, whose body differs.
C1_ReturnsFlaggedSubsequence ==
    f.pc # "start" =>
       LET out == f.first.value
       IN  /\ ~f.first.raised
           /\ \A i \in 1..Len(out) :
                 out[i].id \in 1..Len(f.comments) /\ out[i] = f.comments[out[i].id]
           /\ \A i \in 1..(Len(out) - 1) : out[i].id < out[i + 1].id
           /\ \A j \in 1..Len(f.comments) :
                 j \notin Ids(out) =>
                    \E i \in Ids(out) :
                       /\ i < j
                       /\ <<i, j>> \in f.first.flagged
                       /\ f.comments[i].body # f.comments[j].body

\* ---- C2
\* C2: when get_comments returns before exhausting its candidates, the accepted
\* total (durations plus one gap between consecutive accepted comments) is
\* >= MIN_VIDEO_DURATION; and when all candidates together reach
\* MIN_VIDEO_DURATION under that measure, so does the returned list.
C2_StopReachesTarget ==
    gc.pc = "returned" =>
       /\ Len(gc.returned) < Len(gc.comments)
             => Measure(gc.returned, Len(gc.returned)) >= MIN_VIDEO_DURATION
       /\ Measure(gc.comments, Len(gc.comments)) >= MIN_VIDEO_DURATION
             => Measure(gc.returned, Len(gc.returned)) >= MIN_VIDEO_DURATION

\* get_comments stopped before the last candidate, and only the gap between
\* the two accepted clips lifts the total to the target.
C2_Witness ==
    /\ gc.pc = "returned"
    /\ Len(gc.returned) = 2
    /\ Len(gc.comments) = 3
    /\ SumClips(gc.returned, 2) < MIN_VIDEO_DURATION
    /\ Measure(gc.returned, 2) >= MIN_VIDEO_DURATION

\* ---- C3
\* C3: the value compared with MIN_VIDEO_DURATION after accepting the m-th
\* comment is the sum of the m durations plus silence * (m - 1), and for every
\* proper non-empty prefix of the returned list that value is below the target.
C3_StopsAtFirstReach ==
    /\ \A m \in 1..Len(compared) :
          compared[m] = SumClips(gc.comments, m) + silence_duration * (m - 1)
    /\ gc.pc = "returned" =>
          /\ Len(compared) = Len(gc.returned)
          /\ \A m \in 1..(Len(gc.returned) - 1) :
                Measure(gc.returned, m) < MIN_VIDEO_DURATION

\* A first clip 0.1 s short of the target does not stop the loop (the gap
\* after it does not count); the second one does.
C3_Witness ==
    /\ gc.pc = "returned"
    /\ Len(gc.returned) = 2
    /\ Len(gc.comments) = 3
    /\ compared[1] < MIN_VIDEO_DURATION
    /\ compared[1] + silence_duration >= MIN_VIDEO_DURATION
    /\ compared[2] >= MIN_VIDEO_DURATION

\* ---- C4 (as claimed; refuted by the code)
\* C4: applying filter_duplicate_comments to its own output returns that
\* output unchanged, for every list, threshold and alpha.
C4_FixedPoint ==
    /\ f.pc # "start" => ~f.first.raised
    /\ f.pc = "twice" => ~f.second.raised /\ f.second.value = f.first.value

\* ---- C5 (as claimed; refuted by the code)
\* Whether the search issued for position i of the indexed input scores
\* position j's body >= threshold.
PairScores(i, j) ==
    LET bodies == BodiesOf(f.comments)
        store  == add_documents(VectorStoreInit, bodies).store
        r      == hybrid_search(store, bodies[i], Len(bodies), f.al, f.oracle)
    IN  /\ ~r.raised
        /\ \E t \in 1..Len(r.value) :
              r.value[t][1] = bodies[j] /\ r.value[t][2] >= f.thr

\* C5: for a single comment, or when no pair of input comments scores
\* >= threshold against each other, filter_duplicate_comments returns the
\* input unchanged.
C5_NoDuplicatesUnchanged ==
    (/\ f.pc # "start"
     /\ \/ Len(f.comments) = 1
        \/ \A i, j \in 1..Len(f.comments) : i # j => ~PairScores(i, j))
    => (~f.first.raised /\ f.first.value = f.comments)

\* ---- C6
\* C6: every returned comment has length <= max_comment_length, and a longer
\* comment is never a candidate, never indexed and never synthesized.
C6_MaxLengthRespected ==
    /\ gc.pc = "returned" => \A i \in 1..Len(gc.returned) : ~TooLong(gc.returned[i])
    /\ \A i \in 1..Len(post) :
          TooLong(post[i]) =>
             /\ post[i] \notin Range(gc.comments)
             /\ post[i].body \notin Range(vector_store.documents)
             /\ post[i].id \notin Range(tts_calls)

\* A thread with a too-long comment, from which a comment that fits only
\* after strip() was returned.
C6_Witness ==
    /\ gc.pc = "returned"
    /\ \E i \in 1..Len(post) : TooLong(post[i])
    /\ \E i \in 1..Len(gc.returned) : Len(gc.returned[i].body) > max_comment_length

\* ---- C7
\* C7: if no comment survives the length filter, get_comments returns [] and
\* calls neither synthesis, nor the probe, nor the vector store.
C7_NothingSurvives ==
    (gc.pc # "idle" /\ \A i \in 1..Len(post) : TooLong(post[i]))
    => /\ gc.pc = "returned"
       /\ gc.returned = <<>>
       /\ tts_calls = <<>>
       /\ probe_calls = <<>>
       /\ store_calls = <<>>
       /\ vector_store = VectorStoreInit

\* A thread of two too-long comments with duplicate filtering requested.
C7_Witness ==
    /\ gc.pc = "returned"
    /\ Len(post) = 2
    /\ \A i \in 1..Len(post) : TooLong(post[i])
    /\ args.filter_duplicates

\* ---- C8
\* C8: with at least one candidate the returned list is non-empty; if the
\* first candidate's duration alone reaches the target, exactly that candidate
\* is returned and no other is synthesized.
C8_FirstCandidateEnough ==
    /\ (gc.pc = "returned" /\ gc.comments # <<>>) => gc.returned # <<>>
    /\ (gc.comments # <<>> /\ clip[gc.comments[1].id] >= MIN_VIDEO_DURATION) =>
          /\ Range(tts_calls) \subseteq {gc.comments[1].id}
          /\ Len(tts_calls) <= 1
          /\ gc.pc = "returned" => gc.returned = <<gc.comments[1]>>

\* Three candidates, the first of which lasts the whole target.
C8_Witness ==
    /\ gc.pc = "returned"
    /\ Len(gc.comments) = 3
    /\ clip[gc.comments[1].id] >= MIN_VIDEO_DURATION
    /\ Len(gc.returned) = 1

\* ---- C9
\* C9: if synthesis or the duration probe fails for a candidate, get_comments
\* raises: nothing is returned and no later candidate is tried.
C9_SynthesisFailurePropagates ==
    (failures \cap {"tts", "probe"} # {}) =>
       /\ gc.pc = "raised"
       /\ gc.error \in {"TTSError", "ProbeError"}
       /\ gc.returned = <<>>
       /\ Len(tts_calls) = gc.next
       /\ tts_calls[gc.next] = gc.comments[gc.next].id

\* The probe failed for the second candidate after the first was accepted.
C9_Witness ==
    /\ "probe" \in failures
    /\ Len(gc.processed_comments) = 1
    /\ Len(gc.comments) = 3

\* ---- C10
\* C10: if indexing or searching fails inside filter_duplicate_comments, the
\* failure leaves get_comments: nothing is returned (in particular not the
\* unfiltered list) and no synthesis is started.
C10_FilterFailurePropagates ==
    ("filter" \in failures) =>
       /\ gc.pc = "raised"
       /\ gc.error # None
       /\ gc.returned = <<>>
       /\ gc.comments = <<>>
       /\ tts_calls = <<>>
       /\ probe_calls = <<>>

\* add_documents raised while indexing two surviving comments.
C10_Witness ==
    /\ "filter" \in failures
    /\ store_calls = <<"add_documents">>
    /\ Len(vector_store.documents) = 2

\* ---- C11 (as claimed; refuted by the code)
\* The candidates the duplicate filter is given when sorting is requested.
SortedSurvivors == SortByScore(LengthFilter(post, max_comment_length))

SearchOps == {"semantic_search", "keyword_search", "hybrid_search", "search"}

\* add_documents was called with at least one document, and the store still
\* holds that corpus.
Indexed == api.adds >= 1 /\ api.added # <<>> /\ vector_store.documents = api.added

\* C12: for each mode, every k >= 1 and every indexed corpus of n documents,
\* the search returns exactly min(k, n) results (hence at most k).
C12_TopKBound ==
    (api.op \in SearchOps /\ Indexed)
    => /\ ~api.raised
       /\ Len(api.value) = Min2(api.k, Len(vector_store.documents))

\* ---- C13 (as claimed; refuted by the code)
\* C13: for alpha = 1, hybrid_search(q, k) returns the same documents in the
\* same order as semantic_search(q, k) on the same indexed corpus.
C13_AlphaOneIsSemantic ==
    (api.op = "hybrid_search" /\ api.al = One /\ Indexed)
    => /\ ~api.raised
       /\ ~semantic_search(vector_store, api.query, api.k, api.oracle).raised
       /\ DocsOf(api.value) =
            DocsOf(semantic_search(vector_store, api.query, api.k, api.oracle).value)

\* ---- C14 (as claimed; refuted by the code)
\* C14: for alpha = 0, hybrid_search(q, k) returns the same documents in the
\* same order as keyword_search(q, k) on the same indexed corpus.
C14_AlphaZeroIsKeyword ==
    (api.op = "hybrid_search" /\ api.al = 0 /\ Indexed)
    => /\ ~api.raised
       /\ ~keyword_search(vector_store, api.query, api.k, api.oracle).raised
       /\ DocsOf(api.value) =
            DocsOf(keyword_search(vector_store, api.query, api.k, api.oracle).value)

\* ---- C15 (as claimed; refuted by the code)
\* C15: after add_documents(D1) followed by add_documents(D2), the stored
\* document list, the dense index and the lexical index all describe exactly
\* D2 (same size, same positions), and every search result is a document of D2.
C15_AddReplacesIndex ==
    (api.adds >= 2 /\ api.added # <<>>)
    => /\ vector_store.documents = api.added
       /\ ~vector_store.index.is_none
       /\ ~vector_store.bm25.is_none
       /\ Len(vector_store.index.rows) = Len(api.added)
       /\ vector_store.bm25.rows = [i \in 1..Len(api.added) |-> Split(api.added[i])]
       /\ api.op \in SearchOps =>
             /\ ~api.raised
             /\ Range(DocsOf(api.value)) \subseteq Range(api.added)

\* ---- C16
\* C16: a search (semantic_search, keyword_search, hybrid_search or search) on
\* a VectorStore on which add_documents was never called fails with an error
\* instead of returning results, and leaves the store as it was constructed.
C16_UnindexedSearchFails ==
    (api.op \in SearchOps /\ api.adds = 0)
    => /\ api.raised
       /\ api.error = "AttributeError"
       /\ api.value = <<>>
       /\ vector_store = api.before
       /\ vector_store = VectorStoreInit

\* keyword_search, which uses no embedding, was called on a fresh store.
C16_Witness ==
    /\ api.op = "keyword_search"
    /\ api.adds = 0
    /\ api.raised
    /\ vector_store.bm25.is_none

\* ---- C17 (as claimed; refuted by the code)
\* C17: add_documents with an empty list does not raise, and every search
\* issued afterwards returns an empty list instead of raising.
C17_EmptyCorpus ==
    /\ (api.op = "add_documents" /\ api.added = <<>>) => ~api.raised
    /\ (api.op \in SearchOps /\ api.adds >= 1 /\ api.added = <<>>)
          => (~api.raised /\ api.value = <<>>)

\* ---- C18 (as claimed; refuted by the code)
\* The candidate dicts of the hybrid search recorded in api.
VectorScoresOfCall ==
    DictOf(semantic_search(vector_store, api.query, api.k, api.oracle).value)

Bm25ResultsOfCall ==
    Bm25Results(vector_store, api.query, api.oracle,
                Bm25Top(vector_store, api.query, api.k, api.oracle))

\* The lexical term as claimed: the min-max normalized score of a lexical
\* candidate, 0 for a document absent from the lexical top-k.
LexicalTerm(bm, d) ==
    IF d \in DOMAIN bm
    THEN NormBm25(bm[d], SetMin(BmValues(bm)), SetMax(BmValues(bm)))
    ELSE 0

\* C18: every document hybrid_search scores gets
\* alpha * semantic_score + (1 - alpha) * lexical term, where a side the
\* document is missing from contributes 0 and the lexical term is in [0, 1].
C18_MissingSideIsZero ==
    (api.op = "hybrid_search" /\ Indexed)
    => /\ ~api.raised
       /\ \A j \in 1..Len(api.value) :
             /\ LexicalTerm(Bm25ResultsOfCall, api.value[j][1]) \in 0..One
             /\ api.value[j][2] =
                  (api.al * Get(VectorScoresOfCall, api.value[j][1])
                   + (One - api.al)
                     * LexicalTerm(Bm25ResultsOfCall, api.value[j][1])) \div One

\* ---- C19 (as claimed; refuted by the code)
\* All lexical scores of the top-k lexical candidates are equal.
LexicalScoresEqual ==
    \/ Len(vector_store.documents) = 1
    \/ /\ ~vector_store.bm25.is_none
       /\ Cardinality(BmValues(Bm25ResultsOfCall)) = 1

\* C19: when all lexical scores in the top-k lexical candidate set are equal
\* (a one-document corpus included), hybrid_search returns, and every combined
\* score equals alpha * semantic_score.
C19_DegenerateNormalization ==
    (api.op = "hybrid_search" /\ Indexed /\ LexicalScoresEqual)
    => /\ ~api.raised
       /\ \A j \in 1..Len(api.value) :
             api.value[j][2] =
                (api.al * Get(VectorScoresOfCall, api.value[j][1])) \div One

IdSeq(cs) == [i \in 1..Len(cs) |-> cs[i].id]

\* C21: the accepted comments are a prefix of the candidate list in candidate
\* order; when get_comments returns, synthesis and the probe were each called
\* exactly once per accepted comment, in that order, and for no candidate past
\* the one the loop stopped at; and every pass of the loop either leaves it or
\* moves to the next candidate, so the loop ends on a finite list.
C21_AcceptsPrefix ==
    /\ [](/\ gc.processed_comments = Take(gc.comments, Len(gc.processed_comments))
          /\ gc.pc = "loop" =>
                /\ gc.next = Len(gc.processed_comments) + 1
                /\ gc.next <= Len(gc.comments)
                /\ tts_calls = IdSeq(gc.processed_comments)
                /\ probe_calls = IdSeq(gc.processed_comments)
          /\ gc.pc = "returned" =>
                /\ gc.returned = Take(gc.comments, Len(gc.returned))
                /\ tts_calls = IdSeq(gc.returned)
                /\ probe_calls = IdSeq(gc.returned))
    /\ [][gc.pc = "loop" => (gc'.pc # "loop" \/ gc'.next = gc.next + 1)]_vars

\* The loop stopped at the second of three candidates: the third was never
\* synthesized.
C21_Witness ==
    /\ gc.pc = "returned"
    /\ Len(gc.comments) = 3
    /\ Len(gc.returned) = 2
    /\ tts_calls = <<gc.comments[1].id, gc.comments[2].id>>

\* ---- C22 (as claimed; refuted by the code)
\* The first-stage candidates of the search recorded in api.
FirstStageOfCall ==
    IF api.search_type = "hybrid"
    THEN hybrid_search(vector_store, api.query, FirstStageK(api.k), api.al, api.oracle)
    ELSE IF api.search_type = "semantic"
    THEN semantic_search(vector_store, api.query, FirstStageK(api.k), api.oracle)
    ELSE keyword_search(vector_store, api.query, FirstStageK(api.k), api.oracle)

\* C22: with a re-ranker configured, search(query, k, mode) on an indexed
\* corpus returns at most k of the first-stage candidates (retrieved with
\* k * 100), each with its re-ranker score, in non-increasing score order.
C22_RerankedTopK ==
    (api.op = "search" /\ has_reranker /\ Indexed)
    => /\ ~api.raised
       /\ Len(api.value) <= api.k
       /\ ~FirstStageOfCall.raised
       /\ Range(DocsOf(api.value)) \subseteq Range(DocsOf(FirstStageOfCall.value))
       /\ \A j \in 1..Len(api.value) :
             api.value[j][2] = api.oracle.rr[<<api.query, api.value[j][1]>>]
       /\ \A j \in 1..(Len(api.value) - 1) : api.value[j][2] >= api.value[j + 1][2]

\* ---- C23 (as claimed; refuted by the code)
\* C23: neither wrapper loads its model at construction; the first encode /
\* rerank call loads it and succeeds, and later calls reuse it: after any
\* number of calls the model was loaded exactly once.
C23_LazyLoadOnce ==
    /\ wrappers.encode.calls = 0 =>
          (wrappers.embeddings._model = None /\ wrappers.embeddings.loads = 0)
    /\ wrappers.rerank.calls = 0 =>
          (wrappers.reranker._model = None /\ wrappers.reranker.loads = 0)
    /\ wrappers.encode.calls >= 1 =>
          /\ ~wrappers.encode.raised
          /\ wrappers.embeddings._model # None
          /\ wrappers.embeddings.loads = 1
    /\ wrappers.rerank.calls >= 1 =>
          /\ ~wrappers.rerank.raised
          /\ wrappers.reranker._model # None
          /\ wrappers.reranker.loads = 1

\* ---- C24 (as claimed; refuted by the code)
\* run() has called get_comments in coroutine c.
Selected(c) == runs[c].pc \notin {"none", "created"}

\* The candidates get_comments handed to the duplicate filter in coroutine c.
CandidatesOf(c) ==
    Prepared(runs[c].post, runs[c].called.sort_by_score, max_comment_length)

C25_FanOutThenJoin ==
    \A c \in Coroutines :
       /\ ~Selected(c) => (runs[c].captures = <<>> /\ runs[c].media = <<>>)
       /\ runs[c].captures # <<>> =>
             Len(runs[c].captures) = Len(runs[c].comments) + 1
       /\ (runs[c].media # <<>> \/ runs[c].saved) =>
             /\ runs[c].captures # <<>>
             /\ \A t \in 1..Len(runs[c].captures) : runs[c].captures[t] = "done"
       /\ (\E t \in 1..Len(runs[c].captures) : runs[c].captures[t] = "failed") =>
             /\ runs[c].pc = "raised"
             /\ runs[c].media = <<>>
             /\ ~runs[c].saved

\* Of the three captures launched for a post and its two selected comments one
\* completed and another failed, while the other coroutine saved its record.
C25_Witness ==
    \E c \in Coroutines, b \in Coroutines :
       /\ Len(runs[c].comments) = 2
       /\ Len(runs[c].captures) = 3
       /\ \E t \in 1..3 : runs[c].captures[t] = "done"
       /\ \E t \in 1..3 : runs[c].captures[t] = "failed"
       /\ runs[b].saved
       /\ Len(runs[b].comments) < Len(runs[b].post)

\* ---- C26 (as claimed; refuted by the code)
\* C26: run() filters duplicates iff the pipeline was constructed with
\* remove_duplicates = True and sorts by score iff it was constructed with
\* sort_by_score = True.
C26_FlagsByMeaning ==
    \A c \in Coroutines :
       Selected(c) =>
          /\ runs[c].called.filter_duplicates = runs[c].cfg.remove_duplicates
          /\ runs[c].called.sort_by_score = runs[c].cfg.sort_by_score

\* ---- C27 (as claimed; refuted by the code)
\* C27: add_documents is all-or-nothing: a call that raises leaves the store
\* as it found it; hence in every state the document list and both indexes
\* describe the same document sequence.
C27_AllOrNothing ==
    /\ (api.op = "add_documents" /\ api.raised) => vector_store = api.before
    /\ IF vector_store.index.is_none
       THEN vector_store.documents = <<>> /\ vector_store.bm25.is_none
       ELSE /\ Len(vector_store.index.rows) = Len(vector_store.documents)
            /\ ~vector_store.bm25.is_none
            /\ Len(vector_store.bm25.rows) = Len(vector_store.documents)

\* ---- C28 (as claimed; refuted by the code)
\* Position j is the first input position holding its body.
FirstOfBody(j) == j = IndexOf(BodiesOf(f.comments), f.comments[j].body)

Searches(calls) == Cardinality({ n \in 1..Len(calls) : calls[n] = "hybrid_search" })

C30_FirstIsKept ==
    (f.pc # "start" /\ f.comments # <<>>)
    => /\ ~f.first.raised
       /\ f.first.value # <<>>
       /\ f.first.value[1] = f.comments[1]

====
